---- MODULE Spec2Model ----
(***************************************************************************)
(* Model of src/index.js: the session registry (the `sessions` Map), the   *)
(* per-session state objects {client, lastQr, isReady}, the three client   *)
(* event handlers, and the HTTP handlers start, stop, qr, status,           *)
(* conversations and messages.                                             *)
(*                                                                         *)
(* Node runs every handler to its next `await` without interruption, so    *)
(* each synchronous stretch of a handler is one action.  The stop handler  *)
(* (await logout, await destroy) and the two query handlers (await         *)
(* getChats; await getChatById, await fetchMessages) suspend: each is a    *)
(* small process with a program counter.  A state object and the client it *)
(* owns are made together and never separated, so both carry the same      *)
(* identity 1..n.                                                          *)
(***************************************************************************)
EXTENDS Integers, FiniteSets, Sequences, TLC

\* ---- bounds ----
MaxInputs   == 4      \* requests, client events and query results received in one run
NumKeys     == 2      \* distinct session_ref values requests may name
NumPayloads == 2      \* distinct QR payloads the client may emit

Keys      == 1..NumKeys
Payloads  == 1..NumPayloads
\* Every Client is constructed by a start request and every stop in flight
\* is a request, so neither can outnumber the inputs.
Clients   == 1..MaxInputs
StopProcs == 1..MaxInputs
QueryProcs == 1..MaxInputs

Null      == 0        \* JS null / undefined (Map.get miss, lastQr: null)

Undefined == "undefined"   \* a query parameter that is not in the request

DefaultLimit == 50    \* { limit = 50 } and Number(limit) || 50

\* A JS number, kept in tenths so that a fractional value is told apart
\* from an integer; NaN is the value with nan set.
Num(tenths) == [nan |-> FALSE, tenths |-> tenths]

NaN == [nan |-> TRUE, tenths |-> 0]

NoLimit == NaN        \* fetchMessages not called yet

\* Values of the limit query parameter requests may carry.
LimitParams == {Undefined, "abc", "0", "7", "-5", "2.5"}

VARIABLES
    sessions,    \* the Map: key -> identity of the registered state object, or Null
    nclients,    \* number of Client objects constructed so far
    recKey,      \* state object -> the sessionRef it was created for
    lastQr,      \* state.lastQr
    isReady,     \* state.isReady
    lastEvent,   \* the last event the object's client emitted, with its payload
    clientSt,    \* external client: "none", "active", "destroyCalled", "destroyed"
    stopPc,      \* stop request: "idle", "logout" (awaiting), "destroy" (awaiting)
    stopRef,     \* stop request: session_ref of its body
    stopState,   \* stop request: the state object it looked up
    initSt,      \* client.initialize() promise: "none", "pending", "settled"
    unhandled,   \* TRUE once a promise rejection reached no handler at all
    qPc,         \* query request: "idle", "getChats", "getChatById", "fetchMessages"
    qRef,        \* query request: session_ref of its query string (the handler
                 \* keeps the state object too, but only to call its client)
    qLimitParam, \* messages request: req.query.limit as received
    qFetchLimit, \* messages request: the limit handed to fetchMessages
    issued,      \* payload of the client's latest qr event not followed by ready
    ninputs,     \* requests, client events and query results received so far
    lastResp,    \* the HTTP response sent by the latest step (NoResp: none sent)
    startRets,   \* key -> state objects returned by start since the key was last deleted
    madeFor      \* key -> clients constructed for it since the key was last deleted

vars == <<sessions, nclients, recKey, lastQr, isReady, lastEvent, clientSt,
          stopPc, stopRef, stopState, initSt, unhandled, qPc, qRef,
          qLimitParam, qFetchLimit, issued, ninputs, lastResp, startRets,
          madeFor>>

recVars  == <<recKey, lastQr, isReady, lastEvent>>
stopVars == <<stopPc, stopRef, stopState>>
histVars == <<startRets, madeFor>>
initVars == <<initSt, unhandled>>
queryVars == <<qPc, qRef, qLimitParam, qFetchLimit>>

\* An emitted event: its name and, for 'qr', the payload handed to the handler.
Event(type, qr) == [type |-> type, qr |-> qr]

NoEvent == Event("none", Null)

NoResp == [op |-> "none", ref |-> Null, code |-> 0, body |-> "none", qr |-> Null]

Resp(op, ref, code, body, qr) ==
    [op |-> op, ref |-> ref, code |-> code, body |-> body, qr |-> qr]

Init ==
    /\ sessions  = [k \in Keys |-> Null]
    /\ nclients  = 0
    /\ recKey    = [c \in Clients |-> Null]
    /\ lastQr    = [c \in Clients |-> Null]
    /\ isReady   = [c \in Clients |-> FALSE]
    /\ lastEvent = [c \in Clients |-> NoEvent]
    /\ clientSt  = [c \in Clients |-> "none"]
    /\ stopPc    = [p \in StopProcs |-> "idle"]
    /\ stopRef   = [p \in StopProcs |-> Null]
    /\ stopState = [p \in StopProcs |-> Null]
    /\ initSt    = [c \in Clients |-> "none"]
    /\ unhandled = FALSE
    /\ qPc       = [p \in QueryProcs |-> "idle"]
    /\ qRef      = [p \in QueryProcs |-> Null]
    /\ qLimitParam = [p \in QueryProcs |-> Undefined]
    /\ qFetchLimit = [p \in QueryProcs |-> NoLimit]
    /\ issued    = [c \in Clients |-> Null]
    /\ ninputs   = 0
    /\ lastResp  = NoResp
    /\ startRets = [k \in Keys |-> {}]
    /\ madeFor   = [k \in Keys |-> {}]

\* One more request, client event or query result arrives.
Receive ==
    /\ ninputs < MaxInputs
    /\ ninputs' = ninputs + 1

\* ---- pure helpers ----

\* Variant: the status is derived from the absence of a pending QR payload.
StatusOfByQr(c) == IF lastQr[c] = Null THEN "connected" ELSE "waiting_for_qr"

\* const status = state.isReady ? 'connected' : 'waiting_for_qr';
StatusOf(c) == IF isReady[c] THEN "connected" ELSE "waiting_for_qr"

\* The lifecycle state of a record, read off the fields the handlers keep.
SessionState(c) ==
    IF isReady[c] THEN "Connected"
    ELSE IF lastEvent[c].type = "disconnected" THEN "Disconnected"
    ELSE "AwaitingQr"

\* Number(limit) after the destructuring default of line 142: an absent
\* parameter is the number 50, any other value is a string to convert.
ToNumber(param) ==
    CASE param = Undefined -> Num(DefaultLimit * 10)
      [] param = "0"       -> Num(0)
      [] param = "7"       -> Num(70)
      [] param = "-5"      -> Num(-50)
      [] param = "2.5"     -> Num(25)
      [] OTHER             -> NaN

\* n || 50: NaN and 0 are falsy.
OrDefault(n) == IF n.nan \/ n.tenths = 0 THEN Num(DefaultLimit * 10) ELSE n

\* Line 151: the limit handed to chat.fetchMessages.
FetchLimitOf(param) == OrDefault(ToNumber(param))

\* GET /sessions/status
StatusResponse(ref) ==
    IF sessions[ref] = Null
    THEN Resp("status", ref, 400, "Unknown session_ref", Null)
    ELSE Resp("status", ref, 200, StatusOf(sessions[ref]), Null)

\* GET /sessions/:ref/qr
QrResponse(ref) ==
    IF sessions[ref] = Null \/ lastQr[sessions[ref]] = Null
    THEN Resp("qr", ref, 204, "empty", Null)
    ELSE Resp("qr", ref, 200, "qr", lastQr[sessions[ref]])

\* ---- createSession / getOrCreateSession ----

\* Variant: the lookup result is ignored and a session is always created.
MustCreateAlways(ref) == TRUE

\* True when getOrCreateSession(ref) has to call createSession.
MustCreate(ref) == sessions[ref] = Null

\* The state object getOrCreateSession(ref) returns.
GetOrCreateResult(ref) ==
    IF MustCreate(ref) THEN nclients + 1 ELSE sessions[ref]

\* Variant: createSession without the sessions.set call of line 23.
CreateSessionNoSet(ref) ==
    LET c == nclients + 1 IN
    /\ nclients' = c
    /\ recKey'   = [recKey EXCEPT ![c] = ref]
    /\ lastQr'   = [lastQr EXCEPT ![c] = Null]
    /\ isReady'  = [isReady EXCEPT ![c] = FALSE]
    /\ clientSt' = [clientSt EXCEPT ![c] = "active"]
    /\ madeFor'  = [madeFor EXCEPT ![ref] = @ \cup {c}]
    /\ initSt'   = [initSt EXCEPT ![c] = "pending"]
    /\ UNCHANGED <<lastEvent, sessions>>

\* createSession(sessionRef): new Client, new state object, sessions.set,
\* handlers subscribed, client.initialize() started.
CreateSession(ref) ==
    LET c == nclients + 1 IN
    /\ nclients' = c
    /\ sessions' = [sessions EXCEPT ![ref] = c]
    /\ recKey'   = [recKey EXCEPT ![c] = ref]
    /\ lastQr'   = [lastQr EXCEPT ![c] = Null]
    /\ isReady'  = [isReady EXCEPT ![c] = FALSE]
    /\ clientSt' = [clientSt EXCEPT ![c] = "active"]
    /\ madeFor'  = [madeFor EXCEPT ![ref] = @ \cup {c}]
    /\ initSt'   = [initSt EXCEPT ![c] = "pending"]
    /\ UNCHANGED lastEvent

\* POST /sessions/start (ref is the value computed at line 58)
Start(ref) ==
    LET state == GetOrCreateResult(ref) IN
    /\ Receive
    /\ IF MustCreate(ref)
       THEN CreateSession(ref)
       ELSE UNCHANGED <<sessions, nclients, recKey, lastQr, isReady,
                        lastEvent, clientSt, madeFor, initSt>>
    /\ startRets' = [startRets EXCEPT ![ref] = @ \cup {state}]
    /\ lastResp' = Resp("start", ref, 200,
                        IF isReady'[state] THEN "connected" ELSE "waiting_for_qr",
                        Null)
    /\ UNCHANGED <<stopVars, queryVars, unhandled, issued>>

\* ---- client events ----

\* A constructed client emits events until its destroy() has completed.
CanEmit(c) == clientSt[c] \in {"active", "destroyCalled"}

\* Variant: the qr handler stores the payload but leaves isReady alone.
OnQrKeepReady(c, qr) ==
    /\ Receive
    /\ CanEmit(c)
    /\ lastQr'    = [lastQr EXCEPT ![c] = qr]
    /\ lastEvent' = [lastEvent EXCEPT ![c] = Event("qr", qr)]
    /\ lastResp' = NoResp
    /\ UNCHANGED <<sessions, nclients, recKey, isReady, clientSt, stopVars, histVars>>
    /\ issued'    = [issued EXCEPT ![c] = qr]
    /\ UNCHANGED <<queryVars, initVars>>

\* client.on('qr', (qr) => { state.lastQr = qr; state.isReady = false; })
OnQr(c, qr) ==
    /\ Receive
    /\ CanEmit(c)
    /\ lastQr'    = [lastQr EXCEPT ![c] = qr]
    /\ isReady'   = [isReady EXCEPT ![c] = FALSE]
    /\ lastEvent' = [lastEvent EXCEPT ![c] = Event("qr", qr)]
    /\ lastResp' = NoResp
    /\ UNCHANGED <<sessions, nclients, recKey, clientSt, stopVars, histVars>>
    /\ issued'    = [issued EXCEPT ![c] = qr]
    /\ UNCHANGED <<queryVars, initVars>>

\* Variant: the ready handler sets isReady but keeps the old payload.
OnReadyKeepQr(c) ==
    /\ Receive
    /\ CanEmit(c)
    /\ isReady'   = [isReady EXCEPT ![c] = TRUE]
    /\ lastEvent' = [lastEvent EXCEPT ![c] = Event("ready", Null)]
    /\ lastResp' = NoResp
    /\ UNCHANGED <<sessions, nclients, recKey, lastQr, clientSt, stopVars, histVars>>
    /\ issued'    = [issued EXCEPT ![c] = Null]
    /\ UNCHANGED <<queryVars, initVars>>

\* client.on('ready', () => { state.isReady = true; state.lastQr = null; })
OnReady(c) ==
    /\ Receive
    /\ CanEmit(c)
    /\ isReady'   = [isReady EXCEPT ![c] = TRUE]
    /\ lastQr'    = [lastQr EXCEPT ![c] = Null]
    /\ lastEvent' = [lastEvent EXCEPT ![c] = Event("ready", Null)]
    /\ lastResp' = NoResp
    /\ UNCHANGED <<sessions, nclients, recKey, clientSt, stopVars, histVars>>
    /\ issued'    = [issued EXCEPT ![c] = Null]
    /\ UNCHANGED <<queryVars, initVars>>

\* Variant: the disconnected handler also drops the session from the Map.
OnDisconnectedDeletes(c) ==
    /\ Receive
    /\ CanEmit(c)
    /\ isReady'   = [isReady EXCEPT ![c] = FALSE]
    /\ lastEvent' = [lastEvent EXCEPT ![c] = Event("disconnected", Null)]
    /\ sessions'  = [sessions EXCEPT ![recKey[c]] = Null]
    /\ lastResp' = NoResp
    /\ UNCHANGED <<nclients, recKey, lastQr, clientSt, stopVars, histVars>>
    /\ UNCHANGED <<queryVars, initVars, issued>>

\* client.on('disconnected', (reason) => { state.isReady = false; })
OnDisconnected(c) ==
    /\ Receive
    /\ CanEmit(c)
    /\ isReady'   = [isReady EXCEPT ![c] = FALSE]
    /\ lastEvent' = [lastEvent EXCEPT ![c] = Event("disconnected", Null)]
    /\ lastResp' = NoResp
    /\ UNCHANGED <<sessions, nclients, recKey, lastQr, clientSt, stopVars, histVars>>
    /\ UNCHANGED <<queryVars, initVars, issued>>

\* ---- POST /sessions/stop ----

\* Variant: the response is sent but the sessions.delete call is missing.
StopFinishNoDelete(p) ==
    /\ lastResp'  = Resp("stop", stopRef[p], 200, "ok", Null)
    /\ startRets' = [startRets EXCEPT ![stopRef[p]] = {}]
    /\ madeFor'   = [madeFor EXCEPT ![stopRef[p]] = {}]
    /\ stopPc'    = [stopPc EXCEPT ![p] = "idle"]
    /\ stopRef'   = [stopRef EXCEPT ![p] = Null]
    /\ stopState' = [stopState EXCEPT ![p] = Null]
    /\ UNCHANGED sessions

\* sessions.delete(session_ref); return res.json({ ok: true });
StopFinish(p) ==
    /\ sessions'  = [sessions EXCEPT ![stopRef[p]] = Null]
    /\ lastResp'  = Resp("stop", stopRef[p], 200, "ok", Null)
    /\ startRets' = [startRets EXCEPT ![stopRef[p]] = {}]
    /\ madeFor'   = [madeFor EXCEPT ![stopRef[p]] = {}]
    /\ stopPc'    = [stopPc EXCEPT ![p] = "idle"]
    /\ stopRef'   = [stopRef EXCEPT ![p] = Null]
    /\ stopState' = [stopState EXCEPT ![p] = Null]

\* Lines 71-76: unknown session_ref, answered at once.
StopUnknown(ref) ==
    /\ Receive
    /\ sessions[ref] = Null
    /\ lastResp' = Resp("stop", ref, 400, "Unknown session_ref", Null)
    /\ UNCHANGED <<sessions, nclients, recVars, clientSt, stopVars, histVars>>
    /\ UNCHANGED <<queryVars, initVars, issued>>

\* The slot a new stop request occupies while it is suspended.
FreeSlot(p) ==
    /\ stopPc[p] = "idle"
    /\ \A q \in StopProcs : q < p => stopPc[q] # "idle"

\* Lines 71-79: the record is found, logout() is called and awaited.
StopBegin(p, ref) ==
    /\ Receive
    /\ FreeSlot(p)
    /\ sessions[ref] # Null
    /\ stopPc'    = [stopPc EXCEPT ![p] = "logout"]
    /\ stopRef'   = [stopRef EXCEPT ![p] = ref]
    /\ stopState' = [stopState EXCEPT ![p] = sessions[ref]]
    /\ lastResp' = NoResp
    /\ UNCHANGED <<sessions, nclients, recVars, clientSt, histVars>>
    /\ UNCHANGED <<queryVars, initVars, issued>>

\* Line 79 resolves; line 80 calls destroy() and awaits it.
StopLogoutOk(p) ==
    /\ stopPc[p] = "logout"
    /\ stopPc'   = [stopPc EXCEPT ![p] = "destroy"]
    /\ clientSt' = [clientSt EXCEPT ![stopState[p]] =
                       IF @ = "destroyed" THEN @ ELSE "destroyCalled"]
    /\ lastResp' = NoResp
    /\ UNCHANGED <<sessions, nclients, recVars, stopRef, stopState, histVars>>
    /\ UNCHANGED ninputs
    /\ UNCHANGED <<queryVars, initVars, issued>>

\* Variant: no try/catch, a rejected logout() ends the request with an error
\* and the lines after the try block never run.
StopLogoutFailUncaught(p) ==
    /\ stopPc[p] = "logout"
    /\ lastResp'  = Resp("stop", stopRef[p], 500, "error", Null)
    /\ stopPc'    = [stopPc EXCEPT ![p] = "idle"]
    /\ stopRef'   = [stopRef EXCEPT ![p] = Null]
    /\ stopState' = [stopState EXCEPT ![p] = Null]
    /\ UNCHANGED <<sessions, nclients, recVars, clientSt, histVars>>
    /\ UNCHANGED ninputs
    /\ UNCHANGED <<queryVars, initVars, issued>>

\* Line 79 rejects: the catch at 81-83 logs, line 80 is skipped, then 85-86.
StopLogoutFail(p) ==
    /\ stopPc[p] = "logout"
    /\ StopFinish(p)
    /\ UNCHANGED <<nclients, recVars, clientSt>>
    /\ UNCHANGED ninputs
    /\ UNCHANGED <<queryVars, initVars, issued>>

\* Line 80 resolves: the client is released, then 85-86.
StopDestroyOk(p) ==
    /\ stopPc[p] = "destroy"
    /\ clientSt' = [clientSt EXCEPT ![stopState[p]] = "destroyed"]
    /\ StopFinish(p)
    /\ UNCHANGED <<nclients, recVars>>
    /\ UNCHANGED ninputs
    /\ UNCHANGED <<queryVars, initVars, issued>>

\* Line 80 rejects: caught and logged, then 85-86.
StopDestroyFail(p) ==
    /\ stopPc[p] = "destroy"
    /\ StopFinish(p)
    /\ UNCHANGED <<nclients, recVars, clientSt>>
    /\ UNCHANGED ninputs
    /\ UNCHANGED <<queryVars, initVars, issued>>

\* ---- read-only handlers ----

GetQr(ref) ==
    /\ Receive
    /\ lastResp' = QrResponse(ref)
    /\ UNCHANGED <<sessions, nclients, recVars, clientSt, stopVars, histVars>>
    /\ UNCHANGED <<queryVars, initVars, issued>>

GetStatus(ref) ==
    /\ Receive
    /\ lastResp' = StatusResponse(ref)
    /\ UNCHANGED <<sessions, nclients, recVars, clientSt, stopVars, histVars>>
    /\ UNCHANGED <<queryVars, initVars, issued>>

\* ---- client.initialize() ----

\* Line 42: the promise returned by initialize() resolves.
InitializeOk(c) ==
    /\ Receive
    /\ initSt[c] = "pending"
    /\ initSt' = [initSt EXCEPT ![c] = "settled"]
    /\ lastResp' = NoResp
    /\ UNCHANGED <<sessions, nclients, recVars, clientSt, stopVars, queryVars,
                   unhandled, issued, histVars>>

\* Line 42: the promise rejects; createSession neither awaits it nor
\* attaches a catch, so the rejection reaches no handler.
InitializeFail(c) ==
    /\ Receive
    /\ initSt[c] = "pending"
    /\ initSt' = [initSt EXCEPT ![c] = "settled"]
    /\ unhandled' = TRUE
    /\ lastResp' = NoResp
    /\ UNCHANGED <<sessions, nclients, recVars, clientSt, stopVars, queryVars,
                   issued, histVars>>

\* ---- GET /conversations and GET /conversations/:chatId/messages ----

\* The slot a new query request occupies while it is suspended.
QFreeSlot(p) ==
    /\ qPc[p] = "idle"
    /\ \A q \in QueryProcs : q < p => qPc[q] # "idle"

\* The handler returns: one response is sent and its locals are gone.
QueryFinish(p, op, code, body) ==
    /\ Receive
    /\ lastResp' = Resp(op, qRef[p], code, body, Null)
    /\ qPc'    = [qPc EXCEPT ![p] = "idle"]
    /\ qRef'   = [qRef EXCEPT ![p] = Null]
    /\ qLimitParam' = [qLimitParam EXCEPT ![p] = Undefined]
    /\ qFetchLimit' = [qFetchLimit EXCEPT ![p] = NoLimit]
    /\ UNCHANGED <<sessions, nclients, recVars, clientSt, stopVars, initVars,
                   issued, histVars>>

\* Variant: the !state check of 107-109 is missing; reading state.client of
\* undefined throws inside the try block and the catch answers 500.
ConvUnknownNoCheck(ref) ==
    /\ Receive
    /\ sessions[ref] = Null
    /\ lastResp' = Resp("conversations", ref, 500, "Failed to fetch conversations", Null)
    /\ UNCHANGED <<sessions, nclients, recVars, clientSt, stopVars, queryVars,
                   initVars, issued, histVars>>

\* Lines 104-109: unknown session_ref, answered at once.
ConvUnknown(ref) ==
    /\ Receive
    /\ sessions[ref] = Null
    /\ lastResp' = Resp("conversations", ref, 400, "Unknown session_ref", Null)
    /\ UNCHANGED <<sessions, nclients, recVars, clientSt, stopVars, queryVars,
                   initVars, issued, histVars>>

\* Lines 104-112: the record is found, getChats() is called and awaited.
ConvBegin(p, ref) ==
    /\ Receive
    /\ QFreeSlot(p)
    /\ sessions[ref] # Null
    /\ qPc'    = [qPc EXCEPT ![p] = "getChats"]
    /\ qRef'   = [qRef EXCEPT ![p] = ref]
    /\ lastResp' = NoResp
    /\ UNCHANGED <<sessions, nclients, recVars, clientSt, stopVars, qLimitParam,
                   qFetchLimit, initVars, issued, histVars>>

\* Line 112 resolves and the mapping of 114-130 succeeds: line 132.
ConvOk(p) ==
    /\ qPc[p] = "getChats"
    /\ QueryFinish(p, "conversations", 200, "conversations")

\* Line 112 rejects, or the mapping throws on a malformed chat: 133-136.
ConvFail(p) ==
    /\ qPc[p] = "getChats"
    /\ QueryFinish(p, "conversations", 500, "Failed to fetch conversations")

\* Lines 141-147: unknown session_ref, answered at once.
MsgUnknown(ref) ==
    /\ Receive
    /\ sessions[ref] = Null
    /\ lastResp' = Resp("messages", ref, 400, "Unknown session_ref", Null)
    /\ UNCHANGED <<sessions, nclients, recVars, clientSt, stopVars, queryVars,
                   initVars, issued, histVars>>

\* Lines 141-150: the record is found, getChatById() is called and awaited.
MsgBegin(p, ref) ==
    /\ Receive
    /\ QFreeSlot(p)
    /\ sessions[ref] # Null
    /\ qPc'    = [qPc EXCEPT ![p] = "getChatById"]
    /\ qRef'   = [qRef EXCEPT ![p] = ref]
    /\ lastResp' = NoResp
    /\ UNCHANGED <<sessions, nclients, recVars, clientSt, stopVars, qLimitParam,
                   qFetchLimit,
                   initVars, issued, histVars>>

\* Line 150 resolves; line 151 calls fetchMessages({ limit }) and awaits it.
\* The request's limit parameter is first read here, so it is drawn here.
MsgChatOk(p, limit) ==
    /\ Receive
    /\ qPc[p] = "getChatById"
    /\ qPc' = [qPc EXCEPT ![p] = "fetchMessages"]
    /\ qLimitParam' = [qLimitParam EXCEPT ![p] = limit]
    /\ qFetchLimit' = [qFetchLimit EXCEPT ![p] = FetchLimitOf(limit)]
    /\ lastResp' = NoResp
    /\ UNCHANGED <<sessions, nclients, recVars, clientSt, stopVars, qRef,
                   initVars, issued, histVars>>

\* Line 151 resolves and the mapping of 153-160 succeeds: line 162.
MsgFetchOk(p) ==
    /\ qPc[p] = "fetchMessages"
    /\ QueryFinish(p, "messages", 200, "messages")

\* Line 150 or 151 rejects, or the mapping throws on a malformed message:
\* the one catch block of 163-166.
MsgFail(p) ==
    /\ qPc[p] \in {"getChatById", "fetchMessages"}
    /\ QueryFinish(p, "messages", 500, "Failed to fetch messages")

\* ---- specification ----

Next ==
    \/ \E ref \in Keys : Start(ref)
    \/ \E c \in Clients, qr \in Payloads : OnQr(c, qr)
    \/ \E c \in Clients : OnReady(c)
    \/ \E c \in Clients : OnDisconnected(c)
    \/ \E ref \in Keys : StopUnknown(ref)
    \/ \E p \in StopProcs, ref \in Keys : StopBegin(p, ref)
    \/ \E p \in StopProcs : StopLogoutOk(p)
    \/ \E p \in StopProcs : StopLogoutFail(p)
    \/ \E p \in StopProcs : StopDestroyOk(p)
    \/ \E p \in StopProcs : StopDestroyFail(p)
    \/ \E ref \in Keys : GetQr(ref)
    \/ \E ref \in Keys : GetStatus(ref)
    \/ \E c \in Clients : InitializeOk(c)
    \/ \E c \in Clients : InitializeFail(c)
    \/ \E ref \in Keys : ConvUnknown(ref)
    \/ \E p \in QueryProcs, ref \in Keys : ConvBegin(p, ref)
    \/ \E p \in QueryProcs : ConvOk(p)
    \/ \E p \in QueryProcs : ConvFail(p)
    \/ \E ref \in Keys : MsgUnknown(ref)
    \/ \E p \in QueryProcs, ref \in Keys : MsgBegin(p, ref)
    \/ \E p \in QueryProcs, limit \in LimitParams : MsgChatOk(p, limit)
    \/ \E p \in QueryProcs : MsgFetchOk(p)
    \/ \E p \in QueryProcs : MsgFail(p)

Spec == Init /\ [][Next]_vars

\* Every logout() and destroy() promise eventually settles, one way or the other.
Settles ==
    \A p \in StopProcs :
        /\ WF_vars(StopLogoutOk(p) \/ StopLogoutFail(p))
        /\ WF_vars(StopDestroyOk(p) \/ StopDestroyFail(p))

FairSpec == Spec /\ Settles

\* ---- properties ----

\* A client counts as active from its construction until destroy() has completed.
Active(c) == clientSt[c] \in {"active", "destroyCalled"}

ActiveFor(k) == {c \in Clients : recKey[c] = k /\ Active(c)}

StopOk(ref) == Resp("stop", ref, 200, "ok", Null)

Unknown(op, ref) == Resp(op, ref, 400, "Unknown session_ref", Null)

\* C1: among the start calls made for a key since the key was last absent
\* from the registry, exactly one constructed a session record and client,
\* and every call returned that record, which is the registered one.
C1_OneRecordPerKey ==
    \A k \in Keys :
        /\ Cardinality(madeFor[k]) <= 1
        /\ startRets[k] # {} =>
              /\ Cardinality(madeFor[k]) = 1
              /\ startRets[k] = madeFor[k]
              /\ startRets[k] = {sessions[k]}

\* A start has just answered for a record that already received events, so
\* it is at least the second start of the key's current registration.
C1_Witness ==
    \E k \in Keys :
        /\ lastResp.op = "start" /\ lastResp.ref = k
        /\ sessions[k] # Null
        /\ lastEvent[sessions[k]].type # "none"
        /\ startRets[k] = {sessions[k]}

\* C2: each session key has at most one active client (constructed and not
\* yet destroyed), whatever starts and stops have interleaved.
C2_AtMostOneActiveClient ==
    \A k \in Keys : Cardinality(ActiveFor(k)) <= 1

\* C3: every constructed client whose record is no longer in the registry
\* has had destroy() invoked.
C3_RemovedOnlyWithDestroy ==
    \A c \in Clients :
        (clientSt[c] # "none" /\ sessions[recKey[c]] # c)
            => clientSt[c] \in {"destroyCalled", "destroyed"}

\* C4: a stop request that found its key ends by deleting the key and
\* answering {ok: true} in the same step, on every path through logout and
\* destroy, and it does end once the external calls settle.
C4_StopAlwaysCompletes ==
    /\ [][\A p \in StopProcs :
            (stopPc[p] # "idle" /\ stopPc'[p] = "idle")
                => /\ sessions'[stopRef[p]] = Null
                   /\ lastResp' = StopOk(stopRef[p])]_vars
    /\ \A p \in StopProcs : (stopPc[p] # "idle") ~> (stopPc[p] = "idle")

\* A stop has just answered ok and removed a record whose client never had
\* destroy() called: its logout() was rejected.
C4_Witness ==
    \E c \in Clients :
        /\ clientSt[c] = "active"
        /\ lastResp = StopOk(recKey[c])
        /\ sessions[recKey[c]] = Null

\* C5: no start for a key takes effect while a stop for that key is between
\* its lookup of the record and its deletion of the key.
C5_StartNotDuringStop ==
    lastResp.op = "start" =>
        \A p \in StopProcs : stopPc[p] = "idle" \/ stopRef[p] # lastResp.ref

\* C6: lastQr is non-null only while the record's state is AwaitingQr.
C6_QrOnlyWhileAwaiting ==
    \A c \in Clients : lastQr[c] # Null => SessionState(c) = "AwaitingQr"

C8_ReadySetsConnected ==
    \A c \in Clients :
        lastEvent[c].type = "ready" =>
            /\ isReady[c]
            /\ lastQr[c] = Null
            /\ SessionState(c) = "Connected"

\* Ready is the latest event of a registered record, reported as connected.
C8_Witness ==
    \E c \in Clients :
        /\ lastEvent[c].type = "ready"
        /\ sessions[recKey[c]] = c
        /\ lastResp = Resp("status", recKey[c], 200, "connected", Null)

\* C9: once qr was the latest event of a record, the record is AwaitingQr
\* and lastQr is the payload of that event.
C9_QrSetsAwaiting ==
    \A c \in Clients :
        lastEvent[c].type = "qr" =>
            /\ ~isReady[c]
            /\ lastQr[c] = lastEvent[c].qr
            /\ SessionState(c) = "AwaitingQr"

\* The latest qr event of a registered record carried the second payload and
\* the QR request hands out exactly that payload.
C9_Witness ==
    \E c \in Clients :
        /\ lastEvent[c] = Event("qr", NumPayloads)
        /\ sessions[recKey[c]] = c
        /\ lastResp = Resp("qr", recKey[c], 200, "qr", NumPayloads)

\* C10: a key for which no start was requested since its last completed stop
\* (or ever) is absent from the registry, and the status request for it
\* answers 400 Unknown session_ref.
C10_AbsentAfterStop ==
    \A k \in Keys :
        startRets[k] = {} =>
            /\ sessions[k] = Null
            /\ StatusResponse(k) = Unknown("status", k)
            /\ (lastResp.op = "status" /\ lastResp.ref = k) => lastResp.code = 400

\* A key that was started and then stopped: the status request answers 400.
C10_Witness ==
    \E c \in Clients :
        /\ clientSt[c] = "destroyed"
        /\ startRets[recKey[c]] = {}
        /\ lastResp = Unknown("status", recKey[c])

\* C11: a start for a key that is not registered constructs a client that
\* did not exist before (so none of its events fired yet), registers its
\* record with isReady false and lastQr null, and answers that session_ref
\* with waiting_for_qr; a record stays so until its client's first event.
C11_StartCreatesAwaitingQr ==
    /\ [](\A c \in Clients :
            (clientSt[c] # "none" /\ lastEvent[c] = NoEvent)
                => (lastQr[c] = Null /\ SessionState(c) = "AwaitingQr"))
    /\ [][\A k \in Keys :
            (sessions[k] = Null /\ lastResp'.op = "start" /\ lastResp'.ref = k)
                => /\ sessions'[k] # Null
                   /\ clientSt[sessions'[k]] = "none"
                   /\ clientSt'[sessions'[k]] = "active"
                   /\ lastEvent'[sessions'[k]] = NoEvent
                   /\ ~isReady'[sessions'[k]]
                   /\ lastQr'[sessions'[k]] = Null
                   /\ lastResp' = Resp("start", k, 200, "waiting_for_qr", Null)]_vars

\* The first request of a run was a start: its record is registered, has
\* seen no event, and the answer was waiting_for_qr.
C11_Witness ==
    \E k \in Keys :
        /\ ninputs = 1
        /\ lastResp = Resp("start", k, 200, "waiting_for_qr", Null)
        /\ sessions[k] # Null
        /\ lastEvent[sessions[k]] = NoEvent

\* C12: a start for a registered key answers the record's current status
\* and changes neither the registry nor any record or client; a record is
\* only ever registered under the key it was created for.
C12_StartExistingIsNoOp ==
    /\ [](\A k \in Keys : sessions[k] # Null => recKey[sessions[k]] = k)
    /\ [][\A k \in Keys :
            (sessions[k] # Null /\ lastResp'.op = "start" /\ lastResp'.ref = k)
                => /\ lastResp' = Resp("start", k, 200, StatusOf(sessions[k]), Null)
                   /\ UNCHANGED <<sessions, nclients, recVars, clientSt,
                                  initVars, issued>>]_vars

\* A start answered connected although only one client was ever made: it
\* found the record that an earlier start created.
C12_Witness ==
    \E k \in Keys :
        /\ lastResp = Resp("start", k, 200, "connected", Null)
        /\ nclients = 1
        /\ sessions[k] = 1

\* C13: for a registered key the status request answers connected exactly
\* when the record is Connected and waiting_for_qr otherwise, the answers
\* of start and status just sent agree with it, and after ready as the
\* latest event the answer is connected.
C13_StatusProjection ==
    /\ \A k \in Keys :
          sessions[k] # Null =>
              /\ StatusResponse(k).code = 200
              /\ StatusResponse(k).body =
                    IF SessionState(sessions[k]) = "Connected"
                    THEN "connected" ELSE "waiting_for_qr"
              /\ lastEvent[sessions[k]].type = "ready"
                    => StatusResponse(k).body = "connected"
    /\ (lastResp.op \in {"start", "status"} /\ lastResp.code = 200) =>
          /\ sessions[lastResp.ref] # Null
          /\ lastResp.body =
                IF SessionState(sessions[lastResp.ref]) = "Connected"
                THEN "connected" ELSE "waiting_for_qr"

\* A registered record whose latest event is disconnected was just reported
\* as waiting_for_qr.
C13_Witness ==
    \E c \in Clients :
        /\ lastEvent[c].type = "disconnected"
        /\ sessions[recKey[c]] = c
        /\ lastResp = Resp("status", recKey[c], 200, "waiting_for_qr", Null)

\* C14: for a registered record the QR request answers 204 when lastQr is
\* null and otherwise hands out the payload of the latest qr event, which
\* was issued after the latest ready event.
C14_QrReturnsLatestPayload ==
    /\ \A k \in Keys :
          sessions[k] # Null =>
              /\ lastQr[sessions[k]] = Null
                    => QrResponse(k) = Resp("qr", k, 204, "empty", Null)
              /\ lastQr[sessions[k]] # Null
                    => /\ issued[sessions[k]] # Null
                       /\ QrResponse(k) = Resp("qr", k, 200, "qr", issued[sessions[k]])
              /\ issued[sessions[k]] = Null => QrResponse(k).code = 204
    /\ (lastResp.op = "qr" /\ lastResp.code = 200) =>
          /\ sessions[lastResp.ref] # Null
          /\ lastResp.qr = issued[sessions[lastResp.ref]]

\* The QR request for a registered record whose latest event is ready was
\* just answered 204.
C14_Witness ==
    \E c \in Clients :
        /\ lastEvent[c].type = "ready"
        /\ sessions[recKey[c]] = c
        /\ lastResp = Resp("qr", recKey[c], 204, "empty", Null)

\* Requests that answer 400 for an unknown session_ref.
CheckedOps == {"stop", "status", "conversations", "messages"}

\* C15: while a key is absent, a stop, status, conversations or messages
\* request naming it is answered 400 Unknown session_ref in the step it
\* arrives, no handler suspends on a client call for it, and the registry,
\* the records and the clients are unchanged.
C15_UnknownKeyRejected ==
    [][\A k \in Keys :
        sessions[k] = Null =>
            /\ (/\ lastResp'.ref = k
                /\ lastResp'.op \in CheckedOps
                /\ stopPc' = stopPc
                /\ qPc' = qPc)
                  => /\ lastResp' = Unknown(lastResp'.op, k)
                     /\ UNCHANGED <<sessions, nclients, recVars, clientSt,
                                    stopVars, queryVars, initVars, issued>>
            /\ \A p \in StopProcs :
                  (stopPc[p] = "idle" /\ stopPc'[p] # "idle") => stopRef'[p] # k
            /\ \A p \in QueryProcs :
                  (qPc[p] = "idle" /\ qPc'[p] # "idle") => qRef'[p] # k]_vars

\* A messages request for an absent key was just answered 400 while another
\* key is registered.
C15_Witness ==
    \E k, k2 \in Keys :
        /\ lastResp = Unknown("messages", k)
        /\ sessions[k] = Null
        /\ sessions[k2] # Null

\* C16: no rejection of the external client escapes: none is left
\* unhandled, and a query request ends with one 200 or one 500 answer.
C16_FailuresContained ==
    /\ ~unhandled
    /\ (lastResp.op \in {"conversations", "messages"})
          => lastResp.code \in {200, 400, 500}

IsPositiveInteger(n) == ~n.nan /\ n.tenths > 0 /\ n.tenths % 10 = 0

\* C17: the limit handed to fetchMessages is a positive integer: the parsed
\* parameter when that is a positive integer, the default 50 when the
\* parameter is absent or does not parse.
C17_LimitIsPositiveInteger ==
    \A p \in QueryProcs :
        qPc[p] = "fetchMessages" =>
            /\ IsPositiveInteger(qFetchLimit[p])
            /\ IsPositiveInteger(ToNumber(qLimitParam[p]))
                  => qFetchLimit[p] = ToNumber(qLimitParam[p])
            /\ (qLimitParam[p] = Undefined \/ ToNumber(qLimitParam[p]).nan)
                  => qFetchLimit[p] = Num(DefaultLimit * 10)

\* C18: a step in which a client's event is delivered leaves the registry
\* and every other record and client as they were, also when the client's
\* own record is no longer registered.
C18_EventsTouchOwnRecordOnly ==
    [][\A c \in Clients :
        lastEvent'[c] # lastEvent[c] =>
            /\ sessions' = sessions
            /\ recKey' = recKey
            /\ clientSt' = clientSt
            /\ \A d \in Clients \ {c} :
                  /\ lastQr'[d] = lastQr[d]
                  /\ isReady'[d] = isReady[d]
                  /\ lastEvent'[d] = lastEvent[d]]_vars

\* The third input of a run was a qr event of the only client, delivered
\* after a stop with a rejected logout() had removed its record: the key is
\* still absent.
C18_Witness ==
    /\ ninputs = 3
    /\ nclients = 1
    /\ clientSt[1] = "active"
    /\ initSt[1] = "pending"
    /\ sessions[recKey[1]] = Null
    /\ lastEvent[1].type = "qr"
    /\ lastQr[1] # Null
    /\ lastResp = NoResp
    /\ \A p \in StopProcs : stopPc[p] = "idle"
    /\ \A p \in QueryProcs : qPc[p] = "idle"

\* C19: when a stop request finishes, the record registered under its key,
\* if any, is the record it looked up and tore down.
C19_StopDeletesOwnRecord ==
    [][\A p \in StopProcs :
        (stopPc[p] # "idle" /\ stopPc'[p] = "idle")
            => sessions[stopRef[p]] \in {Null, stopState[p]}]_vars

TypeOK ==
    /\ sessions \in [Keys -> 0..MaxInputs]
    /\ nclients \in 0..MaxInputs
    /\ ninputs \in 0..MaxInputs
    /\ \A c \in Clients : clientSt[c] \in {"none", "active", "destroyCalled", "destroyed"}
    /\ \A p \in StopProcs : stopPc[p] \in {"idle", "logout", "destroy"}
    /\ \A p \in QueryProcs :
          qPc[p] \in {"idle", "getChats", "getChatById", "fetchMessages"}
    /\ \A c \in Clients : initSt[c] \in {"none", "pending", "settled"}
    /\ unhandled \in BOOLEAN

====
